---------------------------- MODULE Spec2Model ----------------------------
(***************************************************************************)
(* Workspace orchestrator of multi-user-code-server: the allocator, the    *)
(* Redis session / warm-pool store, the ASG lifecycle webhook, the idle    *)
(* reaper and the capacity controller, as one state machine.  Every await  *)
(* of a handler that touches shared state (Redis, EC2 tags, ASG) is one    *)
(* step, so that handlers interleave where the event loop lets them.       *)
(***************************************************************************)
EXTENDS Integers, FiniteSets, Sequences, TLC

(* ------------------------------ bounds -------------------------------- *)
NumUsers == 2
NumInstances == 2
NumCalls == 2
MaxTime == 1
MaxOps == 3

Users == 1..NumUsers
Instances == 1..NumInstances
Calls == 1..NumCalls

(* ------------------------- program constants -------------------------- *)
MAX_MACHINES == 2
WARM_SPARE_COUNT == 1
IDLE_TIMEOUT_MS == 1
MaxAttempts == 3
Nil == 0
UNASSIGNED == -1
UNKNOWN == -2

VARIABLES
  ws,         \* Redis hashes ws:<userId>: function from the users that have a hash
  inst,       \* Redis strings inst:<instanceId>: function from the mapped instances
  pings,      \* Redis sorted set ws:pings: member -> score
  pool,       \* Redis set ws:pool
  now,        \* Date.now(), in units of the idle timeout
  cstate,     \* EC2 instance state: "none", "pending", "running", "terminated"
  hasIp,      \* EC2 PublicIpAddress is set
  owner,      \* EC2 tag Owner (UNKNOWN when the tag is missing)
  protected,  \* ASG ProtectedFromScaleIn
  desired,    \* ASG DesiredCapacity
  termReq,    \* number of TerminateInstanceInAutoScalingGroup calls accepted per instance
  events,     \* SNS lifecycle notifications not yet delivered
  calls,      \* allocateMachine invocations
  lh,         \* processNewInstanceWithRetries invocations, per instance
  th,         \* processTerminatedInstance invocations, per instance
  pg,         \* the POST /ping handler
  rp,         \* the periodic cleanup cycle
  ops         \* inputs so far: requests, cleanup cycles, redeliveries, I/O errors

redisVars == <<ws, inst, pings, pool>>
cloudVars == <<cstate, hasIp, owner, protected, desired, termReq>>
procVars == <<calls, lh, th, pg, rp>>
vars == <<ws, inst, pings, pool, now, cstate, hasIp, owner, protected, desired,
          termReq, events, calls, lh, th, pg, rp, ops>>

(* ------------------------------ helpers ------------------------------- *)
Min(a, b) == IF a < b THEN a ELSE b

\* The outcomes of a call that can throw: it may fail while the input budget lasts.
Outcomes == IF ops < MaxOps THEN {TRUE, FALSE} ELSE {TRUE}

Charge(ok) == ops' = IF ok THEN ops ELSE ops + 1

\* The ways a step that reads several values can fail: none, or one of kinds,
\* within the same budget.
ReadFaults(kinds) == IF ops < MaxOps THEN {"none"} \cup kinds ELSE {"none"}

(* --------------------------- Redis (redis.ts) ------------------------- *)
NoWorkspace == [instanceId |-> Nil, publicIp |-> FALSE, state |-> "NONE", lastSeen |-> 0]

\* getUserWorkspace: HGETALL; null when the hash is absent or empty.
getUserWorkspace(u) == IF u \in DOMAIN ws THEN ws[u] ELSE NoWorkspace

\* HMSET/HSET on ws:<u>: creates the hash when it is absent.
HashSet(u, rec) == [x \in (DOMAIN ws) \cup {u} |-> IF x = u THEN rec ELSE ws[x]]

\* setUserWorkspace: MULTI { HMSET ws:<u>; SET inst:<id> u; ZADD ws:pings lastSeen u }.
setUserWorkspace(u, w) ==
  /\ ws' = HashSet(u, w)
  /\ inst' = [x \in (DOMAIN inst) \cup {w.instanceId} |->
                IF x = w.instanceId THEN u ELSE inst[x]]
  /\ pings' = [x \in (DOMAIN pings) \cup {u} |-> IF x = u THEN w.lastSeen ELSE pings[x]]

\* getActiveUserCount: ZCARD ws:pings.
getActiveUserCount == Cardinality(DOMAIN pings)

\* A lookup that scans the workspace records for the instance instead of
\* reading the inverse mapping.
getUserFromInstance_ByRecord(i) ==
  IF \E u \in DOMAIN ws : ws[u].instanceId = i
  THEN CHOOSE u \in DOMAIN ws : ws[u].instanceId = i
  ELSE Nil

\* getUserFromInstance: GET inst:<id>.
getUserFromInstance(i) == IF i \in DOMAIN inst THEN inst[i] ELSE Nil

\* HMSET ws:<u> lastSeen=t state=RUNNING on the hashes h: the other fields stay,
\* and the hash is created when it is absent.
PingHash(h, u, t) ==
  [x \in (DOMAIN h) \cup {u} |->
     IF x = u
     THEN [(IF u \in DOMAIN h THEN h[u] ELSE NoWorkspace)
             EXCEPT !.lastSeen = t, !.state = "RUNNING"]
     ELSE h[x]]

\* ZINCRBY in place of ZADD: the score grows by t.
PingScores_Incr(z, u, t) ==
  [x \in (DOMAIN z) \cup {u} |->
     IF x = u THEN (IF u \in DOMAIN z THEN z[u] + t ELSE t) ELSE z[x]]

\* ZADD ws:pings t u on the sorted set z: the score of u becomes t.
PingScores(z, u, t) == [x \in (DOMAIN z) \cup {u} |-> IF x = u THEN t ELSE z[x]]

\* updateUserPing: MULTI { HMSET ws:<u> lastSeen=now state=RUNNING; ZADD ws:pings now u }.
updateUserPing(u, t) ==
  /\ ws' = PingHash(ws, u, t)
  /\ pings' = PingScores(pings, u, t)

\* getIdleUsers: ZRANGEBYSCORE ws:pings -inf (now - IDLE_TIMEOUT_MS).
IdleSet == {u \in DOMAIN pings : pings[u] <= now - IDLE_TIMEOUT_MS}

\* The order ZRANGEBYSCORE returns members in: by score, then by member.
Before(u, v) == pings[u] < pings[v] \/ (pings[u] = pings[v] /\ u < v)

RECURSIVE Sorted(_)
Sorted(S) ==
  IF S = {} THEN <<>>
  ELSE LET first == CHOOSE u \in S : \A v \in S \ {u} : Before(u, v)
       IN <<first>> \o Sorted(S \ {first})

getIdleUsers == Sorted(IdleSet)

\* cleanupUserData without the ZREM of the user from ws:pings.
cleanupUserData_NoZrem(u, i) ==
  /\ ws' = HashSet(u, [getUserWorkspace(u) EXCEPT !.state = "STOPPED"])
  /\ pings' = pings
  /\ inst' = [x \in (DOMAIN inst) \ {i} |-> inst[x]]

\* cleanupUserData: MULTI { HSET ws:<u> state STOPPED; ZREM ws:pings u; DEL inst:<id> }.
cleanupUserData(u, i) ==
  /\ ws' = HashSet(u, [getUserWorkspace(u) EXCEPT !.state = "STOPPED"])
  /\ pings' = [x \in (DOMAIN pings) \ {u} |-> pings[x]]
  /\ inst' = [x \in (DOMAIN inst) \ {i} |-> inst[x]]

\* getWarmPoolSize: SCARD ws:pool.
getWarmPoolSize == Cardinality(pool)

\* addToWarmPool that never issues the SADD.
addToWarmPool_Noop(i) == pool' = pool

\* addToWarmPool: SADD ws:pool id.
addToWarmPool(i) == pool' = pool \cup {i}

\* removeFromWarmPool: SREM ws:pool id.
removeFromWarmPool(i) == pool' = pool \ {i}

(* --------------------- cloud adapter (awsUtils.ts) -------------------- *)
\* The instances the ASG counts: launched and not terminated.
InService == {i \in Instances : cstate[i] \in {"pending", "running"}}

\* A tagInstance that leaves the tags alone.
tagInstance_Noop(i, u) == owner' = owner

\* tagInstance: CreateTags Owner=<userId>.
tagInstance(i, u) == owner' = [owner EXCEPT ![i] = u]

\* A protectActiveInstances that leaves the protection flags alone.
protectActiveInstances_Noop(ids) == protected' = protected

\* protectActiveInstances: SetInstanceProtection(ids, true).
protectActiveInstances(ids) == protected' = [i \in Instances |-> protected[i] \/ i \in ids]

\* A removeInstanceProtection that leaves the protection flags alone.
removeInstanceProtection_Noop(ids) == protected' = protected

\* removeInstanceProtection: SetInstanceProtection(ids, false).
removeInstanceProtection(ids) == protected' = [i \in Instances |-> protected[i] /\ i \notin ids]

\* updateASGCapacity: SetDesiredCapacity.
updateASGCapacity(n) == desired' = n

\* safelyTerminateInstance: TerminateInstanceInAutoScalingGroup with
\* ShouldDecrementDesiredCapacity; the ASG rejects an instance it no longer holds.
\* The instance leaves state running at once and keeps its public address
\* while it shuts down.
CanTerminate(i) == i \in InService

safelyTerminateInstance(i) ==
  /\ cstate' = [cstate EXCEPT ![i] = "terminated"]
  /\ hasIp' = hasIp
  /\ desired' = IF desired > 0 THEN desired - 1 ELSE 0
  /\ termReq' = [termReq EXCEPT ![i] = 1]
  /\ events' = events \cup {<<"terminate", i>>}

\* getASGInstancesInfo(...).filter(isActive): the ASG's instances whose Owner tag
\* is neither UNASSIGNED nor missing.
ActiveByTag == {i \in InService : owner[i] # UNASSIGNED /\ owner[i] # UNKNOWN}


(* ------------------ allocateMachine (machineManager) ------------------ *)
IdleCall == [pc |-> "idle", user |-> Nil, instanceId |-> Nil, t |-> 0, want |-> Nil,
             after |-> "none", res |-> "none", ret |-> Nil, fresh |-> FALSE,
             err |-> "none"]

Goto(c, label) == calls' = [calls EXCEPT ![c].pc = label]

\* allocateMachine returns: the response, and the locals that die with the call.
\* An error response carries the message of the error that was caught.
Return(c, res, ret, fresh) ==
  calls' = [calls EXCEPT ![c] = [IdleCall EXCEPT !.pc = "done", !.user = calls[c].user,
                                                 !.instanceId = calls[c].instanceId,
                                                 !.res = res, !.ret = ret, !.fresh = fresh,
                                                 !.err = calls[c].err]]

\* The catch block: the error of the step that threw is kept for the response;
\* roll back only when an instance was popped and validated.
Catch(c, rollback) ==
  IF rollback THEN calls' = [calls EXCEPT ![c].pc = "rbUnprotect", ![c].err = calls[c].pc]
  ELSE calls' = [calls EXCEPT ![c] = [IdleCall EXCEPT !.pc = "done", !.user = calls[c].user,
                                                      !.instanceId = calls[c].instanceId,
                                                      !.res = "error",
                                                      !.err = calls[c].pc]]

\* POST /machines/allocate for user u: `now` is taken before the first await.
AllocStart(c, u) ==
  /\ calls[c].pc = "idle"
  /\ \A d \in Calls : d < c => calls[d].pc # "idle"
  /\ ops < MaxOps
  /\ ops' = ops + 1
  /\ calls' = [calls EXCEPT ![c].pc = "check", ![c].user = u, ![c].t = now]
  /\ UNCHANGED <<redisVars, now, cloudVars, events, lh, th, pg, rp>>

\* An existing-workspace test that never finds a workspace.
AlreadyAllocated_Never(w) == FALSE

\* The existing-workspace test of allocateMachine.
AlreadyAllocated(w) == w.state = "RUNNING" /\ w.publicIp

\* getUserWorkspace, and the early return when a machine is already allocated.
AllocCheck(c) ==
  /\ calls[c].pc = "check"
  /\ LET w == getUserWorkspace(calls[c].user) IN
       IF AlreadyAllocated(w)
       THEN Return(c, "success", w.instanceId, FALSE)
       ELSE Goto(c, "pop")
  /\ UNCHANGED <<redisVars, now, cloudVars, events, lh, th, pg, rp, ops>>

\* popWarmSpare reading a member of ws:pool without removing it.
popWarmSpare_NoRemove(c, i) ==
  /\ i \in pool
  /\ pool' = pool
  /\ calls' = [calls EXCEPT ![c].pc = "getip", ![c].instanceId = i]

\* popWarmSpare: SPOP removes and returns one member, atomically.
popWarmSpare(c, i) ==
  /\ i \in pool
  /\ pool' = pool \ {i}
  /\ calls' = [calls EXCEPT ![c].pc = "getip", ![c].instanceId = i]

AllocPop(c) ==
  /\ calls[c].pc = "pop"
  /\ \/ \E i \in pool : popWarmSpare(c, i)
     \/ /\ pool = {}
        /\ pool' = pool
        /\ calls' = [calls EXCEPT ![c].pc = "ecRead", ![c].after = "processing"]
  /\ UNCHANGED <<ws, inst, pings, now, cloudVars, events, lh, th, pg, rp, ops>>

\* The capacity ensureCapacity asks for.
EnsureTarget == Min(getActiveUserCount + WARM_SPARE_COUNT, MAX_MACHINES)

\* ensureCapacity, first half: getActiveUserCount, which answers 0 when Redis
\* fails, and getCurrentASGCapacity, which throws when the ASG call fails.
AllocEnsureRead(c) ==
  /\ calls[c].pc = "ecRead"
  /\ \E f \in ReadFaults({"count", "capacity"}) :
       LET want == IF f = "count" THEN Min(WARM_SPARE_COUNT, MAX_MACHINES)
                   ELSE EnsureTarget IN
       /\ Charge(f = "none")
       /\ IF f = "capacity" THEN Catch(c, calls[c].after = "success")
          ELSE IF want > desired
          THEN calls' = [calls EXCEPT ![c].pc = "ecWrite", ![c].want = want]
          ELSE Return(c, calls[c].after, calls[c].ret, calls[c].fresh)
  /\ UNCHANGED <<redisVars, now, cloudVars, events, lh, th, pg, rp>>

\* ensureCapacity, second half: updateASGCapacity(desired).
AllocEnsureWrite(c) ==
  /\ calls[c].pc = "ecWrite"
  /\ \E ok \in Outcomes :
       /\ Charge(ok)
       /\ IF ok
          THEN /\ updateASGCapacity(calls[c].want)
               /\ Return(c, calls[c].after, calls[c].ret, calls[c].fresh)
          ELSE /\ desired' = desired
               /\ Catch(c, calls[c].after = "success")
  /\ UNCHANGED <<redisVars, now, cstate, hasIp, owner, protected, termReq, events,
                 lh, th, pg, rp>>

\* getInstanceIP that throws for an instance without PublicIpAddress but does not
\* terminate it.
getInstanceIP_NoTerminate(c) ==
  /\ UNCHANGED <<cstate, hasIp, desired, termReq, events, ops>>
  /\ IF hasIp[calls[c].instanceId] THEN Goto(c, "bind") ELSE Catch(c, FALSE)

\* getInstanceIP: DescribeInstances; an instance without PublicIpAddress is
\* terminated and the call throws.  It also throws, with nothing done or with the
\* instance left alone, when DescribeInstances or the terminate call fails.
getInstanceIP(c) ==
  LET i == calls[c].instanceId IN
  \E ok \in Outcomes :
    /\ Charge(ok)
    /\ IF ok /\ hasIp[i]
       THEN /\ Goto(c, "bind")
            /\ UNCHANGED <<cstate, hasIp, desired, termReq, events>>
       ELSE /\ Catch(c, FALSE)
            /\ IF ok /\ CanTerminate(i) THEN safelyTerminateInstance(i)
               ELSE UNCHANGED <<cstate, hasIp, desired, termReq, events>>

AllocGetIp(c) ==
  /\ calls[c].pc = "getip"
  /\ getInstanceIP(c)
  /\ UNCHANGED <<redisVars, now, owner, protected, lh, th, pg, rp>>

\* setupUserWorkspaceSymlink and createWorkspaceNginxConfig: no shared state, may throw.
AllocBind(c) ==
  /\ calls[c].pc = "bind"
  /\ \E ok \in Outcomes :
       /\ Charge(ok)
       /\ IF ok THEN Goto(c, "tag") ELSE Catch(c, TRUE)
  /\ UNCHANGED <<redisVars, now, cloudVars, events, lh, th, pg, rp>>

\* tagInstance(instanceId, userId).
AllocTag(c) ==
  /\ calls[c].pc = "tag"
  /\ \E ok \in Outcomes :
       /\ Charge(ok)
       /\ IF ok THEN tagInstance(calls[c].instanceId, calls[c].user) /\ Goto(c, "protect")
          ELSE owner' = owner /\ Catch(c, TRUE)
  /\ UNCHANGED <<redisVars, now, cstate, hasIp, protected, desired, termReq, events,
                 lh, th, pg, rp>>

\* protectActiveInstances([instanceId]).
AllocProtect(c) ==
  /\ calls[c].pc = "protect"
  /\ \E ok \in Outcomes :
       /\ Charge(ok)
       /\ IF ok THEN protectActiveInstances({calls[c].instanceId}) /\ Goto(c, "persist")
          ELSE protected' = protected /\ Catch(c, TRUE)
  /\ UNCHANGED <<redisVars, now, cstate, hasIp, owner, desired, termReq, events,
                 lh, th, pg, rp>>

\* The record allocateMachine persists.
NewWorkspace(c) ==
  [instanceId |-> calls[c].instanceId, publicIp |-> TRUE, state |-> "RUNNING",
   lastSeen |-> calls[c].t]

\* setUserWorkspace(userId, workspace); then either return (the reconcile is
\* commented out in one version of allocateMachine) or await ensureCapacity().
AllocPersist(c) ==
  /\ calls[c].pc = "persist"
  /\ \E ok \in Outcomes :
       /\ Charge(ok)
       /\ IF ok
          THEN /\ setUserWorkspace(calls[c].user, NewWorkspace(c))
               /\ \/ Return(c, "success", calls[c].instanceId, TRUE)
                  \/ calls' = [calls EXCEPT ![c].pc = "ecRead", ![c].after = "success",
                                            ![c].ret = calls[c].instanceId,
                                            ![c].fresh = TRUE]
          ELSE /\ UNCHANGED <<ws, inst, pings>>
               /\ Catch(c, TRUE)
  /\ UNCHANGED <<pool, now, cloudVars, events, lh, th, pg, rp>>

\* Rollback 1: removeInstanceProtection, errors logged and ignored.
AllocRollbackUnprotect(c) ==
  /\ calls[c].pc = "rbUnprotect"
  /\ \E ok \in Outcomes :
       /\ Charge(ok)
       /\ IF ok THEN removeInstanceProtection({calls[c].instanceId})
          ELSE protected' = protected
  /\ Goto(c, "rbRetag")
  /\ UNCHANGED <<redisVars, now, cstate, hasIp, owner, desired, termReq, events,
                 lh, th, pg, rp>>

\* Rollback 2: tagInstance(instanceId, "UNASSIGNED"), errors logged and ignored.
AllocRollbackRetag(c) ==
  /\ calls[c].pc = "rbRetag"
  /\ \E ok \in Outcomes :
       /\ Charge(ok)
       /\ IF ok THEN tagInstance(calls[c].instanceId, UNASSIGNED) ELSE owner' = owner
  /\ Goto(c, "rbAdd")
  /\ UNCHANGED <<redisVars, now, cstate, hasIp, protected, desired, termReq, events,
                 lh, th, pg, rp>>

\* Rollback 3: addToWarmPool(instanceId), errors logged and ignored.
AllocRollbackAdd(c) ==
  /\ calls[c].pc = "rbAdd"
  /\ \E ok \in Outcomes :
       /\ Charge(ok)
       /\ IF ok THEN addToWarmPool(calls[c].instanceId) ELSE pool' = pool
  /\ Return(c, "error", Nil, FALSE)
  /\ UNCHANGED <<ws, inst, pings, now, cloudVars, events, lh, th, pg, rp>>

(* ---------------------- the Auto Scaling group ----------------------- *)
\* The ASG launches an instance while it holds fewer than DesiredCapacity, and
\* publishes autoscaling:EC2_INSTANCE_LAUNCH.
AsgLaunch(i) ==
  /\ Cardinality(InService) < desired
  /\ cstate[i] = "none"
  /\ \A j \in Instances : j < i => cstate[j] # "none"
  /\ cstate' = [cstate EXCEPT ![i] = "pending"]
  /\ events' = events \cup {<<"launch", i>>}
  /\ UNCHANGED <<redisVars, now, hasIp, owner, protected, desired, termReq,
                 procVars, ops>>

\* A pending instance reaches state running and gets its public address.
InstanceBoot(i) ==
  /\ cstate[i] = "pending"
  /\ cstate' = [cstate EXCEPT ![i] = "running"]
  /\ hasIp' = [hasIp EXCEPT ![i] = TRUE]
  /\ UNCHANGED <<redisVars, now, owner, protected, desired, termReq, events,
                 procVars, ops>>

\* Scale-in: while the ASG holds more than DesiredCapacity it terminates an
\* instance that is not protected, and publishes autoscaling:EC2_INSTANCE_TERMINATE.
AsgScaleIn(i) ==
  /\ Cardinality(InService) > desired
  /\ i \in InService
  /\ ~protected[i]
  /\ cstate' = [cstate EXCEPT ![i] = "terminated"]
  /\ events' = events \cup {<<"terminate", i>>}
  /\ UNCHANGED <<redisVars, now, hasIp, owner, protected, desired, termReq,
                 procVars, ops>>

\* EC2 releases the public address of an instance that has shut down.
ReleaseAddress(i) ==
  /\ cstate[i] = "terminated"
  /\ hasIp[i]
  /\ hasIp' = [hasIp EXCEPT ![i] = FALSE]
  /\ UNCHANGED <<redisVars, now, cstate, owner, protected, desired, termReq, events,
                 procVars, ops>>

(* ---------------------- lifecycle webhook (webhook) -------------------- *)
IdleLaunch == [pc |-> "idle", attempt |-> 0]
IdleTerm == [pc |-> "idle", user |-> Nil]

\* webhookHandler: setImmediate(() => handleASGLifecycleEvent(event)).
StartHandler(kind, i) ==
     IF kind = "launch"
     THEN /\ lh[i].pc = "idle"
          /\ lh' = [lh EXCEPT ![i] = [pc |-> "check", attempt |-> 1]]
          /\ th' = th
     ELSE /\ th[i].pc = "idle"
          /\ th' = [th EXCEPT ![i] = [pc |-> "remove", user |-> Nil]]
          /\ lh' = lh

\* SNS delivers a lifecycle notification.
Deliver(kind, i) ==
  /\ <<kind, i>> \in events
  /\ StartHandler(kind, i)
  /\ events' = events \ {<<kind, i>>}
  /\ UNCHANGED <<redisVars, now, cloudVars, calls, pg, rp, ops>>

\* SNS delivers again a notification it has delivered before (at-least-once).
Redeliver(kind, i) ==
  /\ <<kind, i>> \notin events
  /\ IF kind = "launch" THEN cstate[i] # "none" ELSE cstate[i] = "terminated"
  /\ ops < MaxOps
  /\ ops' = ops + 1
  /\ StartHandler(kind, i)
  /\ UNCHANGED <<redisVars, now, cloudVars, events, calls, pg, rp>>

\* A readiness check that looks at the public address only.
Ready_AddressOnly(i) == hasIp[i]

\* checkInstanceReadiness: isRunning && hasPublicIp.
Ready(i) == cstate[i] = "running" /\ hasIp[i]

\* The end of one attempt that did not succeed: wait and retry, or give up.
NextAttempt(i) ==
  lh' = [lh EXCEPT ![i] = IF lh[i].attempt < MaxAttempts
                          THEN [pc |-> "check", attempt |-> lh[i].attempt + 1]
                          ELSE IdleLaunch]

\* processNewInstanceWithRetries: one readiness poll.
LaunchCheck(i) ==
  /\ lh[i].pc = "check"
  /\ IF Ready(i) THEN lh' = [lh EXCEPT ![i].pc = "tag"] ELSE NextAttempt(i)
  /\ UNCHANGED <<redisVars, now, cloudVars, events, calls, th, pg, rp, ops>>

\* processNewInstanceWithRetries: tagInstance(instanceId, "UNASSIGNED").
LaunchTag(i) ==
  /\ lh[i].pc = "tag"
  /\ \E ok \in Outcomes :
       /\ Charge(ok)
       /\ IF ok THEN tagInstance(i, UNASSIGNED) /\ lh' = [lh EXCEPT ![i].pc = "add"]
          ELSE owner' = owner /\ NextAttempt(i)
  /\ UNCHANGED <<redisVars, now, cstate, hasIp, protected, desired, termReq, events,
                 calls, th, pg, rp>>

\* processNewInstanceWithRetries: addToWarmPool(instanceId), then return true.
LaunchAdd(i) ==
  /\ lh[i].pc = "add"
  /\ \E ok \in Outcomes :
       /\ Charge(ok)
       /\ IF ok THEN addToWarmPool(i) /\ lh' = [lh EXCEPT ![i] = IdleLaunch]
          ELSE pool' = pool /\ NextAttempt(i)
  /\ UNCHANGED <<ws, inst, pings, now, cloudVars, events, calls, th, pg, rp>>

\* processTerminatedInstance: removeFromWarmPool(instanceId); an error ends the handler.
TermRemove(i) ==
  /\ th[i].pc = "remove"
  /\ \E ok \in Outcomes :
       /\ Charge(ok)
       /\ IF ok THEN removeFromWarmPool(i) /\ th' = [th EXCEPT ![i].pc = "lookup"]
          ELSE pool' = pool /\ th' = [th EXCEPT ![i] = IdleTerm]
  /\ UNCHANGED <<ws, inst, pings, now, cloudVars, events, calls, lh, pg, rp>>

\* processTerminatedInstance: getUserFromInstance(instanceId).
TermLookup(i) ==
  /\ th[i].pc = "lookup"
  /\ LET u == getUserFromInstance(i) IN
       th' = [th EXCEPT ![i] = IF u = Nil THEN IdleTerm ELSE [pc |-> "cleanup", user |-> u]]
  /\ UNCHANGED <<redisVars, now, cloudVars, events, calls, lh, pg, rp, ops>>

\* processTerminatedInstance: cleanupUserData(userId, instanceId).
TermCleanup(i) ==
  /\ th[i].pc = "cleanup"
  /\ \E ok \in Outcomes :
       /\ Charge(ok)
       /\ IF ok THEN cleanupUserData(th[i].user, i) ELSE UNCHANGED <<ws, inst, pings>>
  /\ th' = [th EXCEPT ![i] = IdleTerm]
  /\ UNCHANGED <<pool, now, cloudVars, events, calls, lh, pg, rp>>

(* ----------------------------- POST /ping ------------------------------ *)
IdlePing == [pc |-> "idle", instanceId |-> Nil, user |-> Nil]

\* A heartbeat for instanceId arrives: getUserFromInstance, 404 when it is unknown.
PingLookup(i) ==
  /\ pg.pc = "idle"
  /\ ops < MaxOps
  /\ ops' = ops + 1
  /\ LET u == getUserFromInstance(i) IN
       pg' = IF u = Nil THEN IdlePing ELSE [pc |-> "update", instanceId |-> i, user |-> u]
  /\ UNCHANGED <<redisVars, now, cloudVars, events, calls, lh, th, rp>>

\* updateUserPing(userId, instanceId), with Date.now() read inside it.
PingUpdate ==
  /\ pg.pc = "update"
  /\ updateUserPing(pg.user, now)
  /\ pg' = IdlePing
  /\ UNCHANGED <<inst, pool, now, cloudVars, events, calls, lh, th, rp, ops>>

\* Time passes.
Tick ==
  /\ now < MaxTime
  /\ now' = now + 1
  /\ UNCHANGED <<redisVars, cloudVars, events, procVars, ops>>

(* ------------------- cleanup cycle (cleanUpManager) -------------------- *)
\* cleanedUsers: result.cleanedUsers of cleanupIdleMachines.  readError: whether
\* a Redis read of this reconcile failed and was logged by the utility.
IdleReaper == [pc |-> "idle", idle |-> <<>>, cleanedUsers |-> {}, instanceId |-> Nil,
               target |-> 0, act |-> {}, readError |-> FALSE]

\* After the per-user loop body: the next idle user, or the capacity reconcile.
NextUserWith(cleaned) ==
  rp' = [rp EXCEPT !.idle = Tail(rp.idle), !.instanceId = Nil,
                   !.cleanedUsers = rp.cleanedUsers \cup cleaned,
                   !.pc = IF Len(rp.idle) > 1 THEN "load" ELSE "ctlRead"]

\* A loop that a failure aborts: the callback ends without the reconcile.
NextUser_Abort == rp' = IdleReaper

\* After a skipped or failed user.
NextUser == NextUserWith({})

\* The setInterval callback fires: cleanupIdleMachines takes getIdleUsers().
ReaperStart ==
  /\ rp.pc = "idle"
  /\ ops < MaxOps
  /\ ops' = ops + 1
  /\ rp' = [rp EXCEPT !.idle = getIdleUsers,
                      !.pc = IF getIdleUsers = <<>> THEN "ctlRead" ELSE "load"]
  /\ UNCHANGED <<redisVars, now, cloudVars, events, calls, lh, th, pg>>

\* A loop that skips a user whose last ping is no longer older than the timeout.
ReaperLoad_Recheck ==
  /\ rp.pc = "load"
  /\ LET w == getUserWorkspace(Head(rp.idle)) IN
       IF w.state = "NONE" \/ w.instanceId = Nil \/ Head(rp.idle) \notin IdleSet
       THEN NextUser
       ELSE rp' = [rp EXCEPT !.pc = "remove", !.instanceId = w.instanceId]
  /\ UNCHANGED <<redisVars, now, cloudVars, events, calls, lh, th, pg, ops>>

\* cleanupIdleMachines: getUserWorkspace(userId); skip when there is no workspace
\* or no instanceId.
ReaperLoad ==
  /\ rp.pc = "load"
  /\ LET w == getUserWorkspace(Head(rp.idle)) IN
       IF w.state = "NONE" \/ w.instanceId = Nil
       THEN NextUser
       ELSE rp' = [rp EXCEPT !.pc = "remove", !.instanceId = w.instanceId]
  /\ UNCHANGED <<redisVars, now, cloudVars, events, calls, lh, th, pg, ops>>

\* cleanupIdleMachines: removeFromWarmPool(instanceId).
ReaperRemove ==
  /\ rp.pc = "remove"
  /\ \E ok \in Outcomes :
       /\ Charge(ok)
       /\ IF ok THEN removeFromWarmPool(rp.instanceId) /\ rp' = [rp EXCEPT !.pc = "terminate"]
          ELSE pool' = pool /\ NextUser
  /\ UNCHANGED <<ws, inst, pings, now, cloudVars, events, calls, lh, th, pg>>

\* cleanupIdleMachines: safelyTerminateInstance(instanceId); when it throws the
\* user's cleanup is skipped.
ReaperTerminate ==
  /\ rp.pc = "terminate"
  /\ \E ok \in Outcomes :
       /\ Charge(ok)
       /\ IF ok /\ CanTerminate(rp.instanceId)
          THEN safelyTerminateInstance(rp.instanceId) /\ rp' = [rp EXCEPT !.pc = "cleanup"]
          ELSE UNCHANGED <<cstate, hasIp, desired, termReq, events>> /\ NextUser
  /\ UNCHANGED <<redisVars, now, owner, protected, calls, lh, th, pg>>

\* cleanupIdleMachines: cleanupUserData(userId, instanceId).
ReaperCleanup ==
  /\ rp.pc = "cleanup"
  /\ \E ok \in Outcomes :
       /\ Charge(ok)
       /\ IF ok THEN cleanupUserData(Head(rp.idle), rp.instanceId)
                       /\ NextUserWith({Head(rp.idle)})
          ELSE UNCHANGED <<ws, inst, pings>> /\ NextUser
  /\ UNCHANGED <<pool, now, cloudVars, events, calls, lh, th, pg>>

\* The capacity ensureOptimalWarmSpares asks for.
OptimalTarget == getActiveUserCount + WARM_SPARE_COUNT

\* ensureOptimalWarmSpares: getActiveUserCount, getWarmPoolSize,
\* getCurrentASGCapacity, and the choice between scale up, scale down and nothing.
\* getActiveUserCount and getWarmPoolSize answer 0 when Redis fails;
\* getCurrentASGCapacity throws when the ASG call fails, which ends the run.
ControllerRead ==
  /\ rp.pc = "ctlRead"
  /\ \E f \in ReadFaults({"count", "size", "capacity"}) :
       LET target == IF f = "count" THEN WARM_SPARE_COUNT ELSE OptimalTarget
           size == IF f = "size" THEN 0 ELSE getWarmPoolSize IN
       /\ Charge(f = "none")
       /\ IF f = "capacity" THEN rp' = IdleReaper
          ELSE IF desired < target
          THEN rp' = [rp EXCEPT !.pc = "ctlUp", !.target = target,
                                !.readError = f \in {"count", "size"}]
          ELSE IF desired > target /\ size > WARM_SPARE_COUNT
          THEN rp' = [rp EXCEPT !.pc = "sdRead", !.target = target,
                                !.readError = f \in {"count", "size"}]
          ELSE rp' = IdleReaper
  /\ UNCHANGED <<redisVars, now, cloudVars, events, calls, lh, th, pg>>

\* ensureOptimalWarmSpares: updateASGCapacity(targetCapacity).
ControllerScaleUp ==
  /\ rp.pc = "ctlUp"
  /\ \E ok \in Outcomes :
       /\ Charge(ok)
       /\ IF ok THEN updateASGCapacity(rp.target) ELSE desired' = desired
  /\ rp' = IdleReaper
  /\ UNCHANGED <<redisVars, now, cstate, hasIp, owner, protected, termReq, events,
                 calls, lh, th, pg>>

\* safeScaleDown: getCurrentASGCapacity, return when the target is not below it;
\* getASGInstancesInfo and the instances whose tag says they are active.
ScaleDownRead ==
  /\ rp.pc = "sdRead"
  /\ rp' = IF rp.target >= desired THEN IdleReaper
           ELSE [rp EXCEPT !.act = ActiveByTag,
                           !.pc = IF ActiveByTag = {} THEN "sdUpdate" ELSE "sdProtect"]
  /\ UNCHANGED <<redisVars, now, cloudVars, events, calls, lh, th, pg, ops>>

\* A safeScaleDown that goes on to lower the capacity when protecting fails.
ScaleDownProtect_IgnoreError ==
  /\ rp.pc = "sdProtect"
  /\ \E ok \in Outcomes :
       /\ Charge(ok)
       /\ IF ok THEN protectActiveInstances(rp.act) ELSE protected' = protected
  /\ rp' = [rp EXCEPT !.pc = "sdUpdate"]
  /\ UNCHANGED <<redisVars, now, cstate, hasIp, owner, desired, termReq, events,
                 calls, lh, th, pg>>

\* safeScaleDown: protectActiveInstances(activeInstances); when it throws the
\* capacity is left alone.
ScaleDownProtect ==
  /\ rp.pc = "sdProtect"
  /\ \E ok \in Outcomes :
       /\ Charge(ok)
       /\ IF ok THEN protectActiveInstances(rp.act) /\ rp' = [rp EXCEPT !.pc = "sdUpdate"]
          ELSE protected' = protected /\ rp' = IdleReaper
  /\ UNCHANGED <<redisVars, now, cstate, hasIp, owner, desired, termReq, events,
                 calls, lh, th, pg>>

\* safeScaleDown: updateASGCapacity(targetCapacity).
ScaleDownUpdate ==
  /\ rp.pc = "sdUpdate"
  /\ \E ok \in Outcomes :
       /\ Charge(ok)
       /\ IF ok THEN updateASGCapacity(rp.target) ELSE desired' = desired
  /\ rp' = IdleReaper
  /\ UNCHANGED <<redisVars, now, cstate, hasIp, owner, protected, termReq, events,
                 calls, lh, th, pg>>

(* --------------------------- the state machine ------------------------- *)
\* The ASG was created with DesiredCapacity d: its d instances are launched,
\* running, tagged UNASSIGNED and in the warm pool; nobody has a workspace.
\* The instances in bad report no PublicIpAddress.
InitBad(d, o, bad) ==
  /\ ws = << >>
  /\ inst = << >>
  /\ pings = << >>
  /\ pool = 1..d
  /\ now = 0
  /\ cstate = [i \in Instances |-> IF i <= d THEN "running" ELSE "none"]
  /\ hasIp = [i \in Instances |-> i <= d /\ i \notin bad]
  /\ owner = [i \in Instances |-> IF i <= d THEN UNASSIGNED ELSE UNKNOWN]
  /\ protected = [i \in Instances |-> FALSE]
  /\ desired = d
  /\ termReq = [i \in Instances |-> 0]
  /\ events = {}
  /\ calls = [c \in Calls |-> IdleCall]
  /\ lh = [i \in Instances |-> IdleLaunch]
  /\ th = [i \in Instances |-> IdleTerm]
  /\ pg = IdlePing
  /\ rp = IdleReaper
  /\ ops = o

\* The same, every instance with its public address.
InitWith(d, o) == InitBad(d, o, {})

Init == \E d \in 0..MAX_MACHINES : InitWith(d, 0)

Next ==
  \/ \E c \in Calls, u \in Users : AllocStart(c, u)
  \/ \E c \in Calls : AllocCheck(c)
  \/ \E c \in Calls : AllocPop(c)
  \/ \E c \in Calls : AllocEnsureRead(c)
  \/ \E c \in Calls : AllocEnsureWrite(c)
  \/ \E c \in Calls : AllocGetIp(c)
  \/ \E c \in Calls : AllocBind(c)
  \/ \E c \in Calls : AllocTag(c)
  \/ \E c \in Calls : AllocProtect(c)
  \/ \E c \in Calls : AllocPersist(c)
  \/ \E c \in Calls : AllocRollbackUnprotect(c)
  \/ \E c \in Calls : AllocRollbackRetag(c)
  \/ \E c \in Calls : AllocRollbackAdd(c)
  \/ \E i \in Instances : AsgLaunch(i)
  \/ \E i \in Instances : InstanceBoot(i)
  \/ \E i \in Instances : AsgScaleIn(i)
  \/ \E i \in Instances : ReleaseAddress(i)
  \/ \E k \in {"launch", "terminate"}, i \in Instances : Deliver(k, i)
  \/ \E k \in {"launch", "terminate"}, i \in Instances : Redeliver(k, i)
  \/ \E i \in Instances : LaunchCheck(i)
  \/ \E i \in Instances : LaunchTag(i)
  \/ \E i \in Instances : LaunchAdd(i)
  \/ \E i \in Instances : TermRemove(i)
  \/ \E i \in Instances : TermLookup(i)
  \/ \E i \in Instances : TermCleanup(i)
  \/ \E i \in Instances : PingLookup(i)
  \/ PingUpdate
  \/ Tick
  \/ ReaperStart
  \/ ReaperLoad
  \/ ReaperRemove
  \/ ReaperTerminate
  \/ ReaperCleanup
  \/ ControllerRead
  \/ ControllerScaleUp
  \/ ScaleDownRead
  \/ ScaleDownProtect
  \/ ScaleDownUpdate

Spec == Init /\ [][Next]_vars

(* ------------------------------- claims -------------------------------- *)
Running(u) == u \in DOMAIN ws /\ ws[u].state = "RUNNING"

NoAllocationInProgress == \A c \in Calls : calls[c].pc \in {"idle", "done"}

\* C1: no instance is both in ws:pool and the instanceId of a RUNNING workspace record.
Cex_C1 == \A u \in Users : Running(u) => ws[u].instanceId \notin pool

\* C2: the session persist is conditional: an allocation persists its record only
\* when no RUNNING record exists for the user, so that of several concurrent
\* allocations of one user exactly one binds a fresh instance.
Cex_C2 ==
  [][\A c \in Calls :
       (calls[c].pc = "persist" /\ calls'[c].fresh)
         => getUserWorkspace(calls[c].user).state # "RUNNING"]_vars

\* C3: no two distinct users have RUNNING records with the same instanceId.
Cex_C3 ==
  \A u, v \in Users :
    (u # v /\ Running(u) /\ Running(v) /\ ws[u].instanceId # Nil)
      => ws[u].instanceId # ws[v].instanceId

\* C4: for every user with a RUNNING record, inst:<instanceId of the record> is the user.
Cex_C4 == \A u \in Users : Running(u) => getUserFromInstance(ws[u].instanceId) = u

\* C5: a user is a member of ws:pings exactly when ws:<user> exists with state RUNNING.
Thm_C5 == \A u \in Users : (u \in DOMAIN pings) <=> Running(u)

\* C5 witness: one user is live in ws:pings while another was cleaned up (STOPPED).
Wit_C5 ==
  \E u, v \in Users :
    /\ u \in DOMAIN pings /\ Running(u)
    /\ v \in DOMAIN ws /\ ws[v].state = "STOPPED" /\ v \notin DOMAIN pings

\* C6: when no allocation is in progress, every instance of a RUNNING record is
\* scale-in-protected and no member of ws:pool is.
Cex_C6 ==
  NoAllocationInProgress =>
    /\ \A u \in Users : (Running(u) /\ ws[u].instanceId # Nil) => protected[ws[u].instanceId]
    /\ \A i \in pool : ~protected[i]

\* C7: when allocate returns success with instance i for user u, right after the
\* return the Owner tag of i is u, i is protected and i is not in ws:pool.
Cex_C7 ==
  [][\A c \in Calls :
       (calls[c].pc # "done" /\ calls'[c].pc = "done" /\ calls'[c].res = "success")
         => /\ owner'[calls'[c].ret] = calls'[c].user
            /\ protected'[calls'[c].ret]
            /\ calls'[c].ret \notin pool']_vars

(* N concurrent allocations against N ready warm spares: the ASG starts with
   NumCalls instances in the pool, and the whole input budget that is left pays
   for the NumCalls requests, so that once every request has started no I/O
   error has been, or can be, injected. *)
InitC8 == InitWith(NumCalls, MaxOps - NumCalls)

NextC8 ==
  \/ \E c \in Calls, u \in Users : AllocStart(c, u)
  \/ \E c \in Calls : AllocCheck(c)
  \/ \E c \in Calls : AllocPop(c)
  \/ \E c \in Calls : AllocEnsureRead(c)
  \/ \E c \in Calls : AllocGetIp(c)
  \/ \E c \in Calls : AllocBind(c)
  \/ \E c \in Calls : AllocTag(c)
  \/ \E c \in Calls : AllocProtect(c)
  \/ \E c \in Calls : AllocPersist(c)
  \/ \E c \in Calls : AllocRollbackUnprotect(c)
  \/ \E c \in Calls : AllocRollbackRetag(c)
  \/ \E c \in Calls : AllocRollbackAdd(c)

SpecC8 == InitC8 /\ [][NextC8]_vars

AllReturned == \A c \in Calls : calls[c].pc = "done"

DistinctUsers == \A c, d \in Calls : c # d => calls[c].user # calls[d].user

\* C8: N allocations for N pairwise distinct users against a pool of N ready
\* instances, in any interleaving: every call succeeds and the returned
\* instanceIds are pairwise distinct.
Thm_C8 ==
  (AllReturned /\ DistinctUsers) =>
    /\ \A c \in Calls : calls[c].res = "success" /\ calls[c].fresh
    /\ \A c, d \in Calls : c # d => calls[c].ret # calls[d].ret

\* C8 witness: all N calls for distinct users have returned success and the pool is drained.
Wit_C8 ==
  /\ AllReturned /\ DistinctUsers
  /\ \A c \in Calls : calls[c].res = "success"
  /\ pool = {}

\* A Capacity Controller run completes without an error: the reaper's
\* ensureOptimalWarmSpares (with safeScaleDown), or an allocation's ensureCapacity.
ControllerCompletes ==
  \/ /\ rp.pc \in {"ctlRead", "ctlUp", "sdRead", "sdUpdate"}
     /\ rp'.pc = "idle"
     /\ ops' = ops
  \/ \E c \in Calls :
       /\ calls[c].pc \in {"ecRead", "ecWrite"}
       /\ calls'[c].pc = "done"
       /\ calls'[c].res \in {"processing", "success"}

\* C9: whenever a Capacity Controller run completes, the desiredCapacity it
\* leaves is at least the number of active users (members of ws:pings).
Cex_C9 == [][ControllerCompletes => desired' >= Cardinality(DOMAIN pings')]_vars

\* C10: every Capacity Controller run targets min(active_users + warmSpareTarget,
\* maxInstances) (the value the ASG is then to settle at).
Cex_C10 ==
  [][(rp.pc = "ctlRead" /\ rp'.pc \in {"ctlUp", "sdRead"})
       => rp'.target = Min(getActiveUserCount + WARM_SPARE_COUNT, MAX_MACHINES)]_vars

\* C11: no operation of the orchestrator (ensureCapacity, ensureOptimalWarmSpares,
\* the shortage path) raises the ASG desiredCapacity to a value above maxInstances.
Cex_C11 == [][desired' > desired => desired' <= MAX_MACHINES]_vars

\* C12: updatePing is idempotent: for every user u and timestamp t, applying
\* updatePing(u, t) twice leaves ws:<u> and ws:pings as one application leaves them.
Thm_C12 ==
  \A u \in Users, t \in 0..MaxTime :
    /\ PingHash(PingHash(ws, u, t), u, t) = PingHash(ws, u, t)
    /\ PingScores(PingScores(pings, u, t), u, t) = PingScores(pings, u, t)

\* C12 witness: the ping handler is about to apply updateUserPing to a store that
\* the update changes (a stale lastSeen, or a STOPPED record).
Wit_C12 ==
  /\ pg.pc = "update"
  /\ now > 0
  /\ <<PingHash(ws, pg.user, now), PingScores(pings, pg.user, now)>> # <<ws, pings>>

\* The reaper tick finishes: cleanupIdleMachines returns its result (the capacity
\* reconcile that follows does not touch the session store).
TickFinishes ==
  /\ rp.pc \in {"idle", "load", "remove", "terminate", "cleanup"}
  /\ rp'.pc = "ctlRead"

\* C13: when a reaper tick finishes, every user that was idle at tick start (and
\* that the tick processed without an error) has no WorkspaceRecord left, is
\* absent from ws:pings, and its instance was submitted to terminate-with-decrement.
Cex_C13 ==
  [][TickFinishes =>
       \A u \in rp'.cleanedUsers :
         /\ u \notin DOMAIN ws'
         /\ u \notin DOMAIN pings'
         /\ \A i \in Instances : ws[u].instanceId = i => termReq'[i] = 1]_vars

\* The launch handler of instance i completes after a poll that found i running
\* with a public address, the tag and the pool insert having gone through.
LaunchCompletesReady(i) ==
  /\ lh[i].pc \in {"tag", "add"}
  /\ lh'[i].pc = "idle"
  /\ ops' = ops

TermCompletes(i) ==
  /\ th[i].pc # "idle"
  /\ th'[i].pc = "idle"
  /\ ops' = ops

\* C15: when the handler of an InstanceTerminate(i) event completes, inst:<i> is
\* absent, i is not in ws:pool, and the user inst:<i> referenced (the one the
\* handler read from it) is not a member of ws:pings.
Cex_C15 ==
  [][\A i \in Instances :
       TermCompletes(i) =>
         /\ i \notin DOMAIN inst'
         /\ i \notin pool'
         /\ th[i].user # Nil => th[i].user \notin DOMAIN pings']_vars

\* Request c passes its existing-workspace check while the user's record is
\* RUNNING with a public endpoint.
ChecksExisting(c) ==
  /\ calls[c].pc = "check"
  /\ calls'[c].pc # "check"
  /\ Running(calls[c].user)
  /\ ws[calls[c].user].publicIp

ShortageStep(c) ==
  /\ \/ calls[c].pc = "pop" /\ pool = {}
     \/ calls[c].pc \in {"ecRead", "ecWrite"} /\ calls[c].after = "processing"
  /\ calls'[c] # calls[c]
  /\ ops' = ops

\* C17: with ws:pool empty, allocate returns "processing" with no instance, writes
\* no WorkspaceRecord, inverse mapping, liveness entry or pool member, and changes
\* desiredCapacity only by raising it to the min(active_users + warmSpareTarget,
\* maxInstances) it read, when that exceeded the capacity it read; it leaves it
\* alone when it is already at that value.
Cex_C17 ==
  [][\A c \in Calls :
       ShortageStep(c) =>
         /\ UNCHANGED <<ws, inst, pings, pool>>
         /\ calls'[c].pc \in {"ecRead", "ecWrite", "done"}
         /\ calls'[c].pc = "done" =>
              calls'[c].res = "processing" /\ calls'[c].ret = Nil /\ ~calls'[c].fresh
         /\ calls[c].pc = "ecRead" =>
              /\ desired' = desired
              /\ IF Min(getActiveUserCount + WARM_SPARE_COUNT, MAX_MACHINES) > desired
                 THEN /\ calls'[c].pc = "ecWrite"
                      /\ calls'[c].want =
                           Min(getActiveUserCount + WARM_SPARE_COUNT, MAX_MACHINES)
                 ELSE calls'[c].pc = "done"
         /\ calls[c].pc = "ecWrite" =>
              desired' = calls[c].want /\ desired' >= desired]_vars

(* Allocation against a pool that holds bad instances: the ASG runs MAX_MACHINES
   instances, all in the pool, and some of them report no public address. *)
InitC18 == \E bad \in (SUBSET (1..MAX_MACHINES)) \ {{}} : InitBad(MAX_MACHINES, 0, bad)

NextC18 ==
  \/ \E c \in Calls, u \in Users : AllocStart(c, u)
  \/ \E c \in Calls : AllocCheck(c)
  \/ \E c \in Calls : AllocPop(c)
  \/ \E c \in Calls : AllocEnsureRead(c)
  \/ \E c \in Calls : AllocEnsureWrite(c)
  \/ \E c \in Calls : AllocGetIp(c)
  \/ \E c \in Calls : AllocBind(c)
  \/ \E c \in Calls : AllocTag(c)
  \/ \E c \in Calls : AllocProtect(c)
  \/ \E c \in Calls : AllocPersist(c)
  \/ \E c \in Calls : AllocRollbackUnprotect(c)
  \/ \E c \in Calls : AllocRollbackRetag(c)
  \/ \E c \in Calls : AllocRollbackAdd(c)

SpecC18 == InitC18 /\ [][NextC18]_vars

\* Request c gets the answer of getInstanceIP for a popped instance that is in
\* the group and has no public address.
ValidatesBad(c) ==
  /\ calls[c].pc = "getip"
  /\ calls'[c] # calls[c]
  /\ ~hasIp[calls[c].instanceId]
  /\ CanTerminate(calls[c].instanceId)
  /\ ops' = ops

\* C18: when the popped instance has no public endpoint, allocate returns a
\* failure, the instance is terminated with decrement (desiredCapacity drops by
\* 1), it is not returned to ws:pool, and no WorkspaceRecord, inverse mapping or
\* liveness entry is written.
Thm_C18 ==
  [][\A c \in Calls :
       ValidatesBad(c) =>
         /\ calls'[c].pc = "done" /\ calls'[c].res = "error"
         /\ termReq'[calls[c].instanceId] = 1
         /\ cstate'[calls[c].instanceId] = "terminated"
         /\ desired' = desired - 1
         /\ calls[c].instanceId \notin pool'
         /\ UNCHANGED <<ws, inst, pings>>]_vars

\* C18 witness: a request has failed on a bad instance, which is terminated and
\* out of the pool, and its user has no record.
Wit_C18 ==
  \E c \in Calls :
    /\ calls[c].pc = "done" /\ calls[c].res = "error"
    /\ termReq[calls[c].instanceId] = 1
    /\ calls[c].instanceId \notin pool
    /\ calls[c].user \notin DOMAIN ws
    /\ desired = MAX_MACHINES - 1


(* One allocation after another: a request starts only when no other request
   is in flight.  The ASG runs one or two ready instances, all in the pool. *)
InitC19 == \E d \in 1..MAX_MACHINES : InitWith(d, 0)

NextC19 ==
  \/ \E c \in Calls, u \in Users :
       /\ \A d \in Calls : calls[d].pc \in {"idle", "done"}
       /\ AllocStart(c, u)
  \/ \E c \in Calls : AllocCheck(c)
  \/ \E c \in Calls : AllocPop(c)
  \/ \E c \in Calls : AllocEnsureRead(c)
  \/ \E c \in Calls : AllocEnsureWrite(c)
  \/ \E c \in Calls : AllocGetIp(c)
  \/ \E c \in Calls : AllocBind(c)
  \/ \E c \in Calls : AllocTag(c)
  \/ \E c \in Calls : AllocProtect(c)
  \/ \E c \in Calls : AllocPersist(c)
  \/ \E c \in Calls : AllocRollbackUnprotect(c)
  \/ \E c \in Calls : AllocRollbackRetag(c)
  \/ \E c \in Calls : AllocRollbackAdd(c)

SpecC19 == InitC19 /\ [][NextC19]_vars

\* Request c has returned the error of a failed setUserWorkspace.
PersistFailed(c) ==
  /\ calls[c].pc = "done"
  /\ calls[c].res = "error"
  /\ calls[c].err = "persist"

\* C19: when setUserWorkspace is the one step that fails, after the instance was
\* tagged and protected, the call returns an error and, until the next request,
\* the instance is unprotected, tagged UNASSIGNED and in ws:pool and the user has
\* no session state; a later request of another user succeeds with a fresh
\* allocation, of that same instance when it is the only one.
Thm_C19 ==
  \A c, d \in Calls :
    (c < d /\ PersistFailed(c)) =>
      LET i == calls[c].instanceId
          u == calls[c].user IN
      /\ calls[c].ret = Nil
      /\ (calls[d].pc = "idle" /\ ops = 2) =>
           /\ ~protected[i]
           /\ owner[i] = UNASSIGNED
           /\ i \in pool
           /\ cstate[i] = "running"
           /\ u \notin DOMAIN ws
           /\ u \notin DOMAIN pings
           /\ i \notin DOMAIN inst
      /\ (calls[d].pc = "done" /\ calls[d].user # u /\ ops = 3) =>
           /\ calls[d].res = "success"
           /\ calls[d].fresh
           /\ calls[d].ret = i \/ i \in pool
           /\ InService = {i} => calls[d].ret = i
           /\ calls[d].ret \in DOMAIN inst /\ inst[calls[d].ret] = calls[d].user
           /\ u \notin DOMAIN ws

\* C19 witness: the first request failed at setUserWorkspace and was rolled back,
\* and the second request, of another user, holds the same instance.
Wit_C19 ==
  /\ PersistFailed(1)
  /\ calls[2].pc = "done"
  /\ calls[2].res = "success"
  /\ calls[2].user # calls[1].user
  /\ calls[2].ret = calls[1].instanceId
  /\ protected[calls[2].ret]
  /\ owner[calls[2].ret] = calls[2].user


\* Request c gets the answer of getInstanceIP for the instance it popped.
Validates(c) ==
  /\ calls[c].pc = "getip"
  /\ calls'[c] # calls[c]
  /\ ops' = ops

\* C20: the validation lets a popped instance through to the binding steps only
\* if the cloud reports it running and with a public address; an instance that
\* has an address but is not running ends the call with an error, with no
\* rollback that would return it to the pool.
Cex_C20 ==
  [][\A c \in Calls : Validates(c) =>
       IF Ready(calls[c].instanceId)
       THEN calls'[c].pc = "bind"
       ELSE calls'[c].pc = "done" /\ calls'[c].res = "error"]_vars


\* Request c takes a step.
Steps(c) == calls'[c] # calls[c]

CriticalSteps == {"bind", "tag", "protect", "persist", "ecRead", "ecWrite"}

\* C22: compensation attempts remove-protection, retag UNASSIGNED and add-to-pool
\* in that order; each one takes effect when its call succeeds, and a failed one
\* changes nothing and is followed by the next all the same.
Thm_C22 ==
  [][\A c \in Calls : Steps(c) =>
       LET i == calls[c].instanceId IN
       /\ calls'[c].pc = "rbUnprotect" =>
            /\ calls[c].pc \in CriticalSteps
            /\ calls[c].pc \in {"ecRead", "ecWrite"} => calls[c].after = "success"
       /\ calls[c].pc = "rbUnprotect" =>
            /\ calls'[c].pc = "rbRetag"
            /\ protected'[i] = IF ops' = ops THEN FALSE ELSE protected[i]
            /\ UNCHANGED <<owner, pool>>
       /\ calls[c].pc = "rbRetag" =>
            /\ calls'[c].pc = "rbAdd"
            /\ owner'[i] = IF ops' = ops THEN UNASSIGNED ELSE owner[i]
            /\ UNCHANGED <<protected, pool>>
       /\ calls[c].pc = "rbAdd" =>
            /\ calls'[c].pc = "done" /\ calls'[c].res = "error"
            /\ pool' = IF ops' = ops THEN pool \cup {i} ELSE pool
            /\ UNCHANGED <<protected, owner>>
       /\ (pool' \ pool) # {} => calls[c].pc = "rbAdd"]_vars

\* C22 witness: removing the protection failed, and the instance was retagged
\* and returned to the pool nevertheless.
Wit_C22 ==
  \E c \in Calls :
    /\ calls[c].pc = "done"
    /\ calls[c].res = "error"
    /\ calls[c].err = "persist"
    /\ protected[calls[c].instanceId]
    /\ owner[calls[c].instanceId] = UNASSIGNED
    /\ calls[c].instanceId \in pool
    /\ ops = MaxOps
    /\ \A d \in Calls : d # c => calls[d].pc = "idle"


\* Request c returns a fresh allocation.
ReturnsFresh(c) ==
  /\ calls[c].pc # "done"
  /\ calls'[c].pc = "done"
  /\ calls'[c].res = "success"
  /\ calls'[c].fresh

\* C23: when a fresh allocation returns, desiredCapacity is at least
\* min(active users + WARM_SPARE_COUNT, MAX_MACHINES), the new user counted.
Cex_C23 ==
  [][\A c \in Calls : ReturnsFresh(c) =>
       desired' >= Min(Cardinality(DOMAIN pings') + WARM_SPARE_COUNT, MAX_MACHINES)]_vars


\* The controller run takes a step of safeScaleDown.
ScaleDownSteps == rp' # rp /\ rp.pc \in {"sdRead", "sdProtect", "sdUpdate"}

\* C24: safeScaleDown reaches the call that lowers desiredCapacity only past a
\* successful protection of every instance it identified as active (or with
\* none identified); when protecting fails the run ends with desiredCapacity
\* unchanged; nothing but that last call changes desiredCapacity.
Thm_C24 ==
  [][ScaleDownSteps =>
       /\ rp'.pc = "sdUpdate" =>
            \/ rp.pc = "sdRead" /\ rp'.act = {}
            \/ /\ rp.pc = "sdProtect"
               /\ ops' = ops
               /\ \A i \in rp.act : protected'[i]
       /\ (rp.pc = "sdProtect" /\ ops' # ops) =>
            rp' = IdleReaper /\ desired' = desired /\ protected' = protected
       /\ desired' # desired =>
            rp.pc = "sdUpdate" /\ desired' = rp.target /\ ops' = ops]_vars

\* C24 witness: the active instances are protected and the lowering call is next.
Wit_C24 ==
  /\ rp.pc = "sdUpdate"
  /\ rp.act # {}
  /\ \A i \in rp.act : protected[i]
  /\ rp.target < desired


\* ensureOptimalWarmSpares has read its three inputs and decides.
ControllerDecides == rp.pc = "ctlRead" /\ rp' # rp /\ ops' = ops

\* The controller run takes a step.
ControllerSteps ==
  rp' # rp /\ rp.pc \in {"ctlRead", "ctlUp", "sdRead", "sdProtect", "sdUpdate"}

\* C25: with target = active users + WARM_SPARE_COUNT and current = desiredCapacity
\* as the run reads them, the controller goes for safe scale-down only when
\* target < current and the pool holds more than WARM_SPARE_COUNT instances, ends
\* without any cloud mutation when target = current, and sets desiredCapacity to
\* the target when target > current; only its scale-down lowers desiredCapacity.
Cex_C25 ==
  [][/\ ControllerDecides =>
          /\ UNCHANGED <<cloudVars, redisVars>>
          /\ OptimalTarget > desired =>
               rp'.pc = "ctlUp" /\ rp'.target = OptimalTarget
          /\ OptimalTarget = desired => rp' = IdleReaper
          /\ OptimalTarget < desired =>
               IF getWarmPoolSize > WARM_SPARE_COUNT
               THEN rp'.pc = "sdRead" /\ rp'.target = OptimalTarget
               ELSE rp' = IdleReaper
     /\ ControllerSteps =>
          /\ (rp.pc = "ctlUp" /\ ops' = ops) => desired' = rp.target
          /\ desired' # desired => rp.pc \in {"ctlUp", "sdUpdate"}
          /\ desired' < desired => rp.pc = "sdUpdate"]_vars



\* The ASG instances that the session store maps to a user (inst:<id> present).
SessionMapped == InService \cap DOMAIN inst

\* safeScaleDown has listed the ASG instances and identified the active ones.
IdentifiesActive == rp.pc = "sdRead" /\ rp'.pc \in {"sdProtect", "sdUpdate"}

\* C26: the instances safeScaleDown identifies as active, and protects before
\* it lowers desiredCapacity, include every ASG instance with an inst:<id>
\* mapping, whatever its Owner tag.
Cex_C26 == [][IdentifiesActive => SessionMapped \subseteq rp'.act]_vars


\* The launch handler of instance i takes a step.
LaunchSteps(i) == lh'[i] # lh[i] /\ lh[i].pc # "idle"

\* C27: the launch handler tags and pools an instance only past a poll that
\* found it running with a public address; a poll that finds it not ready
\* changes nothing and leads to the next poll or, after the last one, to the end
\* of the handler; no step of the handler terminates an instance.
Thm_C27 ==
  [][\A i \in Instances : LaunchSteps(i) =>
       /\ lh'[i].pc = "tag" =>
            lh[i].pc = "check" /\ cstate[i] = "running" /\ hasIp[i]
       /\ lh'[i].pc = "add" => lh[i].pc = "tag"
       /\ pool' # pool => lh[i].pc = "add" /\ pool' = pool \cup {i}
       /\ (lh[i].pc = "check" /\ ~(cstate[i] = "running" /\ hasIp[i])) =>
            /\ UNCHANGED <<redisVars, cloudVars, events, ops>>
            /\ lh'[i] = IF lh[i].attempt < MaxAttempts
                        THEN [pc |-> "check", attempt |-> lh[i].attempt + 1]
                        ELSE IdleLaunch
       /\ UNCHANGED <<cstate, hasIp, termReq, desired, protected, events>>]_vars

\* C27 witness: the launch of a pending instance was announced and its handler
\* has given up; the instance is neither pooled nor terminated.
Wit_C27 ==
  \E i \in Instances :
    /\ cstate[i] = "pending"
    /\ <<"launch", i>> \notin events
    /\ lh[i].pc = "idle"
    /\ i \notin pool
    /\ termReq[i] = 0
    /\ owner[i] = UNKNOWN


\* C28: whenever an instance is inserted into ws:pool, by the launch handler or
\* by the allocator's compensation, it is tagged UNASSIGNED and not protected
\* from scale-in at that moment.
Cex_C28 ==
  [][\A i \in pool' \ pool : owner[i] = UNASSIGNED /\ ~protected[i]]_vars


\* Instance i is the instanceId of a RUNNING workspace record.
Bound(i) == \E u \in Users : Running(u) /\ ws[u].instanceId = i

\* C29: a launch handler working on an instance that a RUNNING workspace record
\* references neither adds it to ws:pool nor retags it.
Cex_C29 ==
  [][\A i \in Instances : (LaunchSteps(i) /\ Bound(i)) =>
       pool' = pool /\ owner' = owner]_vars


\* The InstanceTerminate(i) notification has been handled: i is terminated, its
\* notification was delivered and the handler is over.
TerminateHandled(i) ==
  /\ cstate[i] = "terminated"
  /\ <<"terminate", i>> \notin events
  /\ th[i].pc = "idle"

\* The launch handler of instance i completes without an I/O error.
LaunchCompletes(i) ==
  /\ lh[i].pc # "idle"
  /\ lh'[i].pc = "idle"
  /\ ops' = ops

\* C30: once the terminate handler of i has run and the launch handlers of i are
\* over, i is not in ws:pool, whichever of the two handlers finishes last: a
\* launch handler that finishes after the terminate handler does not put i
\* (back) into the pool, and a terminate handler that finishes after the launch
\* handlers leaves i out of the pool.
Cex_C30 ==
  [][\A i \in Instances :
       /\ (LaunchCompletes(i) /\ TerminateHandled(i) /\ i \notin pool) => i \notin pool'
       /\ (TermCompletes(i) /\ lh[i].pc = "idle" /\ cstate[i] = "terminated"
             /\ \A c \in Calls : calls[c].instanceId # i)
            => i \notin pool']_vars


(* A reaper tick over several idle users: every user holds a workspace on an
   instance of his own, as NumUsers successful allocations leave them. *)
InitC31 ==
  /\ ws = [u \in Users |-> [instanceId |-> u, publicIp |-> TRUE, state |-> "RUNNING",
                            lastSeen |-> 0]]
  /\ inst = [i \in Users |-> i]
  /\ pings = [u \in Users |-> 0]
  /\ pool = {}
  /\ now = 0
  /\ cstate = [i \in Instances |-> IF i \in Users THEN "running" ELSE "none"]
  /\ hasIp = [i \in Instances |-> i \in Users]
  /\ owner = [i \in Instances |-> IF i \in Users THEN i ELSE UNKNOWN]
  /\ protected = [i \in Instances |-> i \in Users]
  /\ desired = NumUsers
  /\ termReq = [i \in Instances |-> 0]
  /\ events = {}
  /\ calls = [c \in Calls |-> IdleCall]
  /\ lh = [i \in Instances |-> IdleLaunch]
  /\ th = [i \in Instances |-> IdleTerm]
  /\ pg = IdlePing
  /\ rp = IdleReaper
  /\ ops = 0

NextC31 ==
  \/ Tick
  \/ \E i \in Instances : PingLookup(i)
  \/ PingUpdate
  \/ ReaperStart
  \/ ReaperLoad
  \/ ReaperRemove
  \/ ReaperTerminate
  \/ ReaperCleanup
  \/ ControllerRead
  \/ ControllerScaleUp

SpecC31 == InitC31 /\ [][NextC31]_vars

\* The reaper takes a step of its per-user loop.
LoopSteps == rp' # rp /\ rp.pc \in {"load", "remove", "terminate", "cleanup"}

\* C31: a step of the per-user loop either goes on with the same user or, when
\* the user is done, skipped or has failed, moves to the next idle user of the
\* snapshot, and to the capacity reconcile after the last one; a failed call
\* changes nothing and never ends the tick.
Thm_C31 ==
  [][LoopSteps =>
       /\ rp'.pc \in {"load", "remove", "terminate", "cleanup", "ctlRead"}
       /\ rp'.pc \in {"remove", "terminate", "cleanup"} =>
            rp'.idle = rp.idle /\ ops' = ops
       /\ rp'.pc \in {"load", "ctlRead"} =>
            /\ rp'.idle = Tail(rp.idle)
            /\ rp'.pc = IF Len(rp.idle) > 1 THEN "load" ELSE "ctlRead"
       /\ ops' # ops =>
            /\ rp'.pc \in {"load", "ctlRead"}
            /\ rp'.cleanedUsers = rp.cleanedUsers
            /\ UNCHANGED <<redisVars, cloudVars, events>>]_vars

\* C31 witness: the first idle user of the tick failed and is still active, the
\* second one was cleaned up, and the capacity reconcile is next.
Wit_C31 ==
  /\ rp.pc = "ctlRead"
  /\ rp.cleanedUsers = {2}
  /\ Running(1)
  /\ 1 \in DOMAIN pings
  /\ termReq[2] = 1
  /\ ops = 2


\* User u was pinged since the idle snapshot was taken: his last-seen time is no
\* longer older than the idle timeout.
PingedSince(u) == u \in DOMAIN pings /\ u \notin IdleSet

\* C32: the reaper acts on its snapshot.  For a user of the snapshot who was
\* pinged since, it still takes his instance from the record, submits it for
\* termination, and its cleanup leaves him out of ws:pings with a record that
\* is not RUNNING.
Thm_C32 ==
  [][(LoopSteps /\ ops' = ops /\ PingedSince(Head(rp.idle))) =>
       LET u == Head(rp.idle) IN
       /\ (rp.pc = "load" /\ Running(u)) =>
            rp'.pc = "remove" /\ rp'.instanceId = ws[u].instanceId
       /\ rp.pc = "remove" => rp'.pc = "terminate" /\ rp.instanceId \notin pool'
       /\ (rp.pc = "terminate" /\ CanTerminate(rp.instanceId)) =>
            rp'.pc = "cleanup" /\ termReq'[rp.instanceId] = 1
       /\ rp.pc = "cleanup" =>
            /\ u \notin DOMAIN pings'
            /\ ~(u \in DOMAIN ws' /\ ws'[u].state = "RUNNING")
            /\ u \in rp'.cleanedUsers]_vars

\* C32 witness: a user was pinged at the current time, after the snapshot, and
\* the tick has terminated his instance and cleaned his session.
Wit_C32 ==
  \E u \in Users :
    /\ u \in rp.cleanedUsers
    /\ u \in DOMAIN ws
    /\ ws[u].lastSeen = now
    /\ now > 0
    /\ ws[u].state = "STOPPED"
    /\ u \notin DOMAIN pings
    /\ termReq[ws[u].instanceId] = 1


\* Heartbeats only.  The users of B hold the instance of their own number; the
\* users of D held it until the reaper terminated it and cleaned their session;
\* the other instances are warm spares.  The agent of every instance sends
\* heartbeats, a warm spare's and a stopping instance's as well.
InitC33 ==
  \E B \in SUBSET Users : \E D \in SUBSET (Users \ B) :
    /\ ws = [u \in B \cup D |->
               [instanceId |-> u, publicIp |-> TRUE,
                state |-> IF u \in B THEN "RUNNING" ELSE "STOPPED", lastSeen |-> 0]]
    /\ inst = [i \in B |-> i]
    /\ pings = [u \in B |-> 0]
    /\ pool = Instances \ (B \cup D)
    /\ now = IF D = {} THEN 0 ELSE IDLE_TIMEOUT_MS
    /\ cstate = [i \in Instances |-> IF i \in D THEN "terminated" ELSE "running"]
    /\ hasIp = [i \in Instances |-> TRUE]
    /\ owner = [i \in Instances |-> IF i \in B \cup D THEN i ELSE UNASSIGNED]
    /\ protected = [i \in Instances |-> i \in B \cup D]
    /\ desired = NumInstances - Cardinality(D)
    /\ termReq = [i \in Instances |-> IF i \in D THEN 1 ELSE 0]
    /\ events = {}
    /\ calls = [c \in Calls |-> IdleCall]
    /\ lh = [i \in Instances |-> IdleLaunch]
    /\ th = [i \in Instances |-> IdleTerm]
    /\ pg = IdlePing
    /\ rp = IdleReaper
    /\ ops = 0

NextC33 ==
  \/ Tick
  \/ \E i \in Instances : PingLookup(i)
  \/ PingUpdate

SpecC33 == InitC33 /\ [][NextC33]_vars

\* C33: a heartbeat for an instance without inverse mapping is answered without
\* the update step, and answering it changes no workspace record, no score of
\* ws:pings, no member of ws:pool and no inverse mapping; the update step is only
\* ever entered for the user the inverse mapping names.
Thm_C33 ==
  [][/\ \A i \in Instances :
          (PingLookup(i) /\ i \notin DOMAIN inst) => UNCHANGED <<redisVars, pg>>
     /\ (pg.pc = "idle" /\ pg'.pc = "update") =>
          /\ pg'.instanceId \in DOMAIN inst
          /\ pg'.user = inst[pg'.instanceId]
          /\ UNCHANGED redisVars]_vars

\* C33 witness: one user's session was cleaned, the other instance is a warm
\* spare, MaxOps heartbeats of these instances were answered, and the store is
\* as it was.
Wit_C33 ==
  /\ ops = MaxOps
  /\ pg = IdlePing
  /\ inst = << >>
  /\ pings = << >>
  /\ pool = {2}
  /\ 1 \in DOMAIN ws /\ ws[1] = [instanceId |-> 1, publicIp |-> TRUE,
                                  state |-> "STOPPED", lastSeen |-> 0]


\* The allocation call c writes the record of u in this step.
PersistStep(c, u) ==
  calls[c].pc = "persist" /\ calls[c].user = u /\ calls'[c].pc # "persist"

\* A cleanup of u's session happens in this step, by the reaper or by the
\* terminate handler of some instance.
CleanupStep(u) ==
  \/ rp.pc = "cleanup" /\ Head(rp.idle) = u /\ rp' # rp
  \/ \E i \in Instances : th[i].pc = "cleanup" /\ th[i].user = u /\ th'[i] # th[i]

\* C34: a record becomes RUNNING only in the persist step of an allocation for
\* its user, and stops being RUNNING only in a cleanup of its user; the update
\* step of the heartbeat handler keeps a RUNNING record RUNNING and never makes
\* a record RUNNING that was not, nor adds a user to ws:pings who was not in it.
Cex_C34 ==
  [][\A u \in Users :
       /\ (~Running(u) /\ Running(u)') => \E c \in Calls : PersistStep(c, u)
       /\ (Running(u) /\ ~Running(u)') => CleanupStep(u)
       /\ (u \notin DOMAIN pings /\ u \in DOMAIN pings') =>
            \E c \in Calls : PersistStep(c, u)]_vars


\* Where a popped instance may be once the call that popped it has returned:
\* back in ws:pool, submitted for termination (or already shut down), bound to a
\* user, or popped again by another allocation that is still running.
Settled(c, i) ==
  \/ i \in pool
  \/ termReq[i] = 1
  \/ cstate[i] = "terminated"
  \/ \E u \in Users : Running(u) /\ ws[u].instanceId = i
  \/ \E d \in Calls \ {c} : calls[d].instanceId = i /\ calls[d].pc \notin {"idle", "done"}

\* C35: an instance popped by an allocation that returned without success is
\* back in ws:pool or submitted for termination.
Cex_C35 ==
  \A c \in Calls :
    (calls[c].pc = "done" /\ calls[c].res # "success" /\ calls[c].instanceId # Nil)
      => Settled(c, calls[c].instanceId)


\* C36: every inverse mapping inst:<i> = u points to a user whose record is
\* RUNNING with instanceId i.
Cex_C36 ==
  \A i \in DOMAIN inst :
    inst[i] # Nil => Running(inst[i]) /\ ws[inst[i]].instanceId = i


\* The call c returns through the already-allocated path in this step.
ReturnsExisting(c) ==
  calls[c].pc = "check" /\ calls'[c].pc = "done" /\ calls'[c].res = "success"

\* C37: the instance an allocation returns through its already-allocated path
\* has not been submitted for termination.
Cex_C37 ==
  [][\A c \in Calls : ReturnsExisting(c) => termReq[calls'[c].ret] = 0]_vars


\* The instances that allocations in flight have popped and not yet persisted.
PoppedInFlight ==
  {calls[c].instanceId : c \in {d \in Calls : calls[d].pc \in {"getip", "bind", "tag",
                                                                 "protect", "persist"}}}

\* safeScaleDown lowers DesiredCapacity in this step.
ScaleDownLowers == rp.pc = "sdUpdate" /\ desired' < desired

\* C38: when safeScaleDown lowers DesiredCapacity, every instance that an
\* allocation in flight has popped is protected from scale-in.
Cex_C38 ==
  [][ScaleDownLowers =>
       \A i \in PoppedInFlight \cap InService : protected'[i]]_vars


\* C39: a reconcile in which the read of the active-user count or of the warm
\* pool size failed does not lower DesiredCapacity.
Cex_C39 ==
  [][(rp.readError /\ rp.pc \in {"ctlUp", "sdUpdate"}) => desired' >= desired]_vars


\* The client of call c asks again after a "processing" answer.
AllocRetry(c) ==
  /\ calls[c].pc = "done"
  /\ calls[c].res = "processing"
  /\ calls' = [calls EXCEPT ![c] = [IdleCall EXCEPT !.pc = "check", !.user = calls[c].user,
                                                    !.t = now]]
  /\ UNCHANGED <<redisVars, now, cloudVars, events, lh, th, pg, rp, ops>>

\* The setInterval callback of startCleanupProcess fires, every minute for ever.
IntervalFires ==
  /\ rp.pc = "idle"
  /\ rp' = [rp EXCEPT !.idle = getIdleUsers,
                      !.pc = IF getIdleUsers = <<>> THEN "ctlRead" ELSE "load"]
  /\ UNCHANGED <<redisVars, now, cloudVars, events, calls, lh, th, pg, ops>>

\* A user who asks for a machine and retries, with every cloud and Redis call
\* succeeding (the budget of injected failures is spent) and every notification
\* delivered once: the request of user 1 has arrived at a group of capacity d.
InitC40 ==
  \E d \in 0..MAX_MACHINES :
    /\ ws = << >>
    /\ inst = << >>
    /\ pings = << >>
    /\ pool = 1..d
    /\ now = 0
    /\ cstate = [i \in Instances |-> IF i <= d THEN "running" ELSE "none"]
    /\ hasIp = [i \in Instances |-> i <= d]
    /\ owner = [i \in Instances |-> IF i <= d THEN UNASSIGNED ELSE UNKNOWN]
    /\ protected = [i \in Instances |-> FALSE]
    /\ desired = d
    /\ termReq = [i \in Instances |-> 0]
    /\ events = {}
    /\ calls = [c \in Calls |-> IF c = 1 THEN [IdleCall EXCEPT !.pc = "check", !.user = 1]
                                ELSE IdleCall]
    /\ lh = [i \in Instances |-> IdleLaunch]
    /\ th = [i \in Instances |-> IdleTerm]
    /\ pg = IdlePing
    /\ rp = IdleReaper
    /\ ops = MaxOps

AllocatorC40 ==
  \E c \in Calls :
    \/ AllocRetry(c)
    \/ AllocCheck(c)
    \/ AllocPop(c)
    \/ AllocEnsureRead(c)
    \/ AllocEnsureWrite(c)
    \/ AllocGetIp(c)
    \/ AllocBind(c)
    \/ AllocTag(c)
    \/ AllocProtect(c)
    \/ AllocPersist(c)

LaunchHandlerC40 ==
  \E i \in Instances : Deliver("launch", i) \/ LaunchCheck(i) \/ LaunchTag(i) \/ LaunchAdd(i)

ControllerC40 ==
  \/ IntervalFires
  \/ ControllerRead
  \/ ControllerScaleUp
  \/ ScaleDownRead
  \/ ScaleDownProtect
  \/ ScaleDownUpdate

TermHandlerC40 ==
  \E i \in Instances : Deliver("terminate", i) \/ TermRemove(i) \/ TermLookup(i) \/ TermCleanup(i)

CloudC40 == \E i \in Instances : AsgLaunch(i) \/ InstanceBoot(i) \/ AsgScaleIn(i)

NextC40 ==
  AllocatorC40 \/ LaunchHandlerC40 \/ TermHandlerC40 \/ ControllerC40 \/ CloudC40

\* Fair scheduling: the client keeps retrying and its request keeps running, the
\* event loop runs every handler that can run, the interval keeps firing, and
\* the ASG launches and boots what it has to.
SpecC40 ==
  /\ InitC40
  /\ [][NextC40]_vars
  /\ WF_vars(AllocatorC40)
  /\ WF_vars(LaunchHandlerC40)
  /\ WF_vars(TermHandlerC40)
  /\ WF_vars(ControllerC40)
  /\ WF_vars(CloudC40)

\* C40: a user whose allocate answered "processing" and who keeps retrying
\* eventually gets "success".
Cex_C40 == (calls[1].res = "processing") ~> (calls[1].res = "success")

=============================================================================
